---- MODULE Spec2Model ----
(***************************************************************************)
(* melonJS ObservableVector3d: a 3d vector whose coordinate writes are     *)
(* routed through a user supplied onUpdate callback.                       *)
(*                                                                         *)
(* JavaScript numbers are modelled as exact rationals n/d together with    *)
(* NaN, +Infinity and -Infinity; `undefined` is a value of its own.        *)
(* Floating point rounding and the sign of zero are not modelled.          *)
(***************************************************************************)
EXTENDS Integers, Sequences, FiniteSets, TLC

\* ------------------------------------------------------------------------
\* Bounds of the model
\* ------------------------------------------------------------------------
\* number of method calls made on a vector after its construction
MaxOps == 2
\* calls made on one level entity
MaxLevelCalls == 3

\* ------------------------------------------------------------------------
\* JavaScript values
\* ------------------------------------------------------------------------
AbsI(i) == IF i < 0 THEN -i ELSE i

RECURSIVE Gcd(_, _)
Gcd(i, j) == IF j = 0 THEN i ELSE Gcd(j, i % j)

\* the rational n/d in lowest terms with a positive denominator (d # 0)
Rat(n, d) ==
    LET g == Gcd(AbsI(n), AbsI(d))
        s == IF d < 0 THEN -1 ELSE 1
    IN  [k |-> "num", n |-> (s * n) \div g, d |-> (s * d) \div g]

Num(i) == [k |-> "num", n |-> i, d |-> 1]
NaN == [k |-> "nan", n |-> 0, d |-> 1]
PosInf == [k |-> "inf", n |-> 1, d |-> 1]
NegInf == [k |-> "inf", n |-> -1, d |-> 1]
Undef == [k |-> "undef", n |-> 0, d |-> 1]

IsNum(v) == v.k = "num"
IsInf(v) == v.k = "inf"
\* ToNumber(undefined) is NaN
IsNaN(v) == v.k \in {"nan", "undef"}
Sign(v) == IF v.n < 0 THEN -1 ELSE IF v.n > 0 THEN 1 ELSE 0
IsZero(v) == IsNum(v) /\ v.n = 0
Inf(s) == IF s < 0 THEN NegInf ELSE PosInf

\* unary minus
Neg(v) ==
    IF IsNaN(v) THEN NaN
    ELSE IF IsInf(v) THEN Inf(-v.n)
    ELSE Rat(-v.n, v.d)

\* a + b
Plus(a, b) ==
    IF IsNaN(a) \/ IsNaN(b) THEN NaN
    ELSE IF IsInf(a) /\ IsInf(b) THEN (IF a.n = b.n THEN a ELSE NaN)
    ELSE IF IsInf(a) THEN a
    ELSE IF IsInf(b) THEN b
    ELSE Rat(a.n * b.d + b.n * a.d, a.d * b.d)

\* a - b
Minus(a, b) == Plus(a, Neg(b))

\* a * b
Times(a, b) ==
    IF IsNaN(a) \/ IsNaN(b) THEN NaN
    ELSE IF IsInf(a) \/ IsInf(b)
         THEN (IF Sign(a) * Sign(b) = 0 THEN NaN ELSE Inf(Sign(a) * Sign(b)))
    ELSE Rat(a.n * b.n, a.d * b.d)

\* a / b
Over(a, b) ==
    IF IsNaN(a) \/ IsNaN(b) THEN NaN
    ELSE IF IsInf(a) /\ IsInf(b) THEN NaN
    ELSE IF IsInf(a) THEN (IF Sign(b) < 0 THEN Inf(-a.n) ELSE a)
    ELSE IF IsInf(b) THEN Num(0)
    ELSE IF b.n = 0 THEN (IF a.n = 0 THEN NaN ELSE Inf(Sign(a)))
    ELSE Rat(a.n * b.d, a.d * b.n)

\* a < b (false as soon as one side is NaN)
Lt(a, b) ==
    IF IsNaN(a) \/ IsNaN(b) THEN FALSE
    ELSE IF IsInf(a) /\ IsInf(b) THEN a.n < b.n
    ELSE IF IsInf(a) THEN a.n < 0
    ELSE IF IsInf(b) THEN b.n > 0
    ELSE a.n * b.d < b.n * a.d

\* a > b
Gt(a, b) == Lt(b, a)

\* a === b
StrictEq(a, b) ==
    IF a.k = "nan" \/ b.k = "nan" THEN FALSE ELSE a = b

\* a <= b
Le(a, b) == Lt(a, b) \/ (~IsNaN(a) /\ ~IsNaN(b) /\ a = b)

\* a >= b
Ge(a, b) == Le(b, a)

\* ToBoolean(v): 0, NaN and undefined are falsy
Truthy(v) == ~IsNaN(v) /\ ~IsZero(v)

\* a || b
OrElse(a, b) == IF Truthy(a) THEN a ELSE b

\* Math.floor
Floor(v) == IF IsNum(v) THEN Num(v.n \div v.d) ELSE IF IsNaN(v) THEN NaN ELSE v

\* Math.ceil
Ceil(v) == IF IsNum(v) THEN Num(-((-v.n) \div v.d)) ELSE IF IsNaN(v) THEN NaN ELSE v


\* exact square root of a square integer
ISqrt(i) == CHOOSE r \in 0..i : r * r = i

\* Math.sqrt, on NaN, Infinity and the rationals that have a rational root
Sqrt(v) ==
    IF IsNaN(v) THEN NaN
    ELSE IF IsInf(v) THEN (IF v.n > 0 THEN PosInf ELSE NaN)
    ELSE Rat(ISqrt(v.n), ISqrt(v.d))

\* Math.cos(Math.atan2(dy, dx)) for finite or NaN dy, dx
CosAtan2(dy, dx) ==
    IF IsNaN(dy) \/ IsNaN(dx) THEN NaN
    ELSE IF IsZero(dy) /\ IsZero(dx) THEN Num(1)
    ELSE Over(dx, Sqrt(Plus(Times(dx, dx), Times(dy, dy))))

\* Math.sin(Math.atan2(dy, dx)) for finite or NaN dy, dx
SinAtan2(dy, dx) ==
    IF IsNaN(dy) \/ IsNaN(dx) THEN NaN
    ELSE IF IsZero(dy) /\ IsZero(dx) THEN Num(0)
    ELSE Over(dy, Sqrt(Plus(Times(dx, dx), Times(dy, dy))))

\* clamp(val, low, high) of math.ts
clamp(val, low, high) ==
    IF Lt(val, low) THEN low
    ELSE IF Gt(val, high) THEN high
    ELSE (IF IsNaN(val) THEN NaN ELSE val)

\* ------------------------------------------------------------------------
\* Vectors passed as arguments, settings objects, callbacks
\* ------------------------------------------------------------------------
\* a plain vector argument; a Vector2d has no z
Vec(x, y, z) == [obj |-> TRUE, x |-> x, y |-> y, z |-> z]
\* an argument that was not passed
NoArg == [obj |-> FALSE, x |-> Undef, y |-> Undef, z |-> Undef]

\* the functions used as onUpdate callbacks
\*   cbNone    records its arguments and returns nothing
\*   cbFull    returns {x: 10, y: 10, z: 10}
\*   cbX       returns {x: 7}
\*   cbYZ      returns {y: 8, z: 9}
\*   cbReenter writes (5, 6, 7) to the vector it observes through the
\*             batch write, once, and returns nothing
Functions == {"cbNone", "cbFull", "cbX", "cbYZ", "cbReenter"}
\* values that are not functions
NonFunctions == {"undefined", "notAFunction"}
\* the callbacks that do not write to the vector they observe
PureFunctions == Functions \ {"cbReenter"}

\* what a callback returns: undefined, or an object with some of the keys
RetUndefined == [obj |-> FALSE, keys |-> {}, x |-> Undef, y |-> Undef, z |-> Undef]
RetObject(keys, x, y, z) == [obj |-> TRUE, keys |-> keys, x |-> x, y |-> y, z |-> z]

\* the value returned by the callback fn
Returned(fn) ==
    CASE fn = "cbFull" -> RetObject({"x", "y", "z"}, Num(10), Num(10), Num(10))
      [] fn = "cbX" -> RetObject({"x"}, Num(7), Undef, Undef)
      [] fn = "cbYZ" -> RetObject({"y", "z"}, Undef, Num(8), Num(9))
      [] OTHER -> RetUndefined

\* ret && key in ret
HasKey(ret, key) == ret.obj /\ key \in ret.keys

\* the settings argument of the constructor and of onResetEvent
NoSettings == [kind |-> "undefined", onUpdate |-> "undefined", scope |-> "undefined"]
Settings(fn, scope) == [kind |-> "object", onUpdate |-> fn, scope |-> scope]

\* a default parameter value
Default(v, d) == IF v.k = "undef" THEN d ELSE v

\* ------------------------------------------------------------------------
\* ObservableVector3d
\* ------------------------------------------------------------------------
\* the fields of a vector whose constructor has not run yet
Blank == [_x |-> Undef, _y |-> Undef, _z |-> Undef,
          onUpdate |-> "undefined", scope |-> "undefined"]

\* what a call does: the vector afterwards, the callback invocations it
\* made, what it returned and whether it threw
Returns(o, log, ret) == [o |-> o, log |-> log, ret |-> ret, threw |-> FALSE]
Throws(o, log) == [o |-> o, log |-> log, ret |-> "none", threw |-> TRUE]

RECURSIVE Invoke(_, _, _)
RECURSIVE _set(_, _, _, _, _)

\* setMuted writing through the batch write, which notifies
setMuted_notifying(o, x, y, z) == _set(o, x, y, z, 0)

\* setMuted(x, y, z)
setMuted(o, x, y, z) ==
    Returns([o EXCEPT !._x = x, !._y = y, !._z = OrElse(z, Num(0))], <<>>, "this")

\* setCallback with the assignments made before the type test
setCallback_assignFirst(o, fn, scope) ==
    LET n == [o EXCEPT !.onUpdate = fn,
                       !.scope = IF scope = "undefined" THEN "null" ELSE scope]
    IN  IF fn \notin Functions THEN Throws(n, <<>>) ELSE Returns(n, <<>>, "this")

\* setCallback(fn, scope = null)
setCallback(o, fn, scope) ==
    IF fn \notin Functions
    THEN Throws(o, <<>>)
    ELSE Returns([o EXCEPT !.onUpdate = fn,
                           !.scope = IF scope = "undefined" THEN "null" ELSE scope],
                 <<>>, "this")

\* onResetEvent rebinding the callback whether or not settings are given
onResetEvent_alwaysRebind(o, x, y, z, settings) ==
    LET m == setMuted(o, Default(x, Num(0)), Default(y, Num(0)), Default(z, Num(0)))
    IN  IF settings.kind # "object" THEN Throws(m.o, <<>>)
        ELSE LET c == setCallback(m.o, settings.onUpdate, settings.scope)
             IN  IF c.threw THEN c ELSE Returns(c.o, <<>>, "this")

\* onResetEvent(x = 0, y = 0, z = 0, settings)
onResetEvent(o, x, y, z, settings) ==
    LET m == setMuted(o, Default(x, Num(0)), Default(y, Num(0)), Default(z, Num(0)))
    IN  IF settings.kind = "undefined" THEN Returns(m.o, <<>>, "this")
        ELSE IF settings.kind = "null" THEN Throws(m.o, <<>>)
        ELSE LET c == setCallback(m.o, settings.onUpdate, settings.scope)
             IN  IF c.threw THEN c ELSE Returns(c.o, <<>>, "this")

\* the constructor of the parent class Vector3d: initialises the
\* coordinates through onResetEvent, without settings
Vector3dConstructor(o, x, y, z) == onResetEvent(o, x, y, z, NoSettings).o

\* the constructor binding a callback only when settings are given, as
\* onResetEvent does
constructor_optionalSettings(x, y, z, settings) ==
    LET o == Vector3dConstructor(Blank, Default(x, Num(0)), Default(y, Num(0)),
                                 Default(z, Num(0)))
    IN  IF settings.kind = "undefined" THEN Returns(o, <<>>, "new")
        ELSE IF settings.kind = "null" THEN Throws(o, <<>>)
        ELSE LET c == setCallback(o, settings.onUpdate, settings.scope)
             IN  IF c.threw THEN c ELSE Returns(c.o, <<>>, "new")

\* new ObservableVector3d(x = 0, y = 0, z = 0, settings)
constructor(x, y, z, settings) ==
    LET o == Vector3dConstructor(Blank, Default(x, Num(0)), Default(y, Num(0)),
                                 Default(z, Num(0)))
    IN  IF settings.kind = "undefined" THEN Throws(o, <<>>)
        ELSE IF settings.kind = "null" THEN Throws(o, <<>>)
        ELSE LET c == setCallback(o, settings.onUpdate, settings.scope)
             IN  IF c.threw THEN c ELSE Returns(c.o, <<>>, "new")

\* the coordinates the re-entrant callback cbReenter writes
ReenterCoords == <<Num(5), Num(6), Num(7)>>

\* the batch write commits: lines 134 to 143 of _set
Commit(o, ret, x, y, z) ==
    IF HasKey(ret, "x") /\ HasKey(ret, "y") /\ HasKey(ret, "z")
    THEN [o EXCEPT !._x = ret.x, !._y = ret.y, !._z = ret.z]
    ELSE [o EXCEPT !._x = x, !._y = y, !._z = OrElse(z, Num(0))]

\* this.onUpdate.call(this.scope, newX, newY, newZ, oldX, oldY, oldZ), made
\* at nesting depth `depth` (0 for a call made by the program, 1 for a call
\* made while a callback runs); each invocation is logged with its receiver,
\* its arguments, the coordinates the callback finds in the vector and the
\* value it returns
Invoke(o, args, depth) ==
    LET entry == [depth |-> depth, this |-> o.scope, fn |-> o.onUpdate,
                  args |-> args, seen |-> <<o._x, o._y, o._z>>,
                  ret |-> Returned(o.onUpdate)]
    IN  IF o.onUpdate = "cbReenter" /\ depth = 0
        THEN LET r == _set(o, ReenterCoords[1], ReenterCoords[2], ReenterCoords[3],
                           depth + 1)
             IN  [o |-> r.o, ret |-> entry.ret, log |-> <<entry>> \o r.log]
        ELSE [o |-> o, ret |-> entry.ret, log |-> <<entry>>]

\* _set(x, y, z)
_set(o, x, y, z, depth) ==
    LET c == Invoke(o, <<x, y, z, o._x, o._y, o._z>>, depth)
    IN  Returns(Commit(c.o, c.ret, x, y, z), c.log, "this")


\* set x committing the written value whatever the callback returns
set_x_ignoringReturn(o, value) ==
    LET c == Invoke(o, <<value, o._y, o._z, o._x, o._y, o._z>>, 0)
    IN  Returns([c.o EXCEPT !._x = value], c.log, "undefined")

\* set x(value)
set_x(o, value) ==
    LET c == Invoke(o, <<value, o._y, o._z, o._x, o._y, o._z>>, 0)
    IN  Returns([c.o EXCEPT !._x = IF HasKey(c.ret, "x") THEN c.ret.x ELSE value],
                c.log, "undefined")

\* set y honouring every key of the returned object
set_y_allKeys(o, value) ==
    LET c == Invoke(o, <<o._x, value, o._z, o._x, o._y, o._z>>, 0)
    IN  Returns([c.o EXCEPT !._x = IF HasKey(c.ret, "x") THEN c.ret.x ELSE @,
                            !._y = IF HasKey(c.ret, "y") THEN c.ret.y ELSE value,
                            !._z = IF HasKey(c.ret, "z") THEN c.ret.z ELSE @],
                c.log, "undefined")

\* set y(value)
set_y(o, value) ==
    LET c == Invoke(o, <<o._x, value, o._z, o._x, o._y, o._z>>, 0)
    IN  Returns([c.o EXCEPT !._y = IF HasKey(c.ret, "y") THEN c.ret.y ELSE value],
                c.log, "undefined")

\* set z(value)
set_z(o, value) ==
    LET c == Invoke(o, <<o._x, o._y, value, o._x, o._y, o._z>>, 0)
    IN  Returns([c.o EXCEPT !._z = IF HasKey(c.ret, "z") THEN c.ret.z ELSE value],
                c.log, "undefined")

\* add written with the three property setters, as in the parent class
add_viaSetters(o, v) ==
    LET a == set_x(o, Plus(o._x, v.x))
        b == set_y(a.o, Plus(a.o._y, v.y))
        c == set_z(b.o, Plus(b.o._z, OrElse(v.z, Num(0))))
    IN  Returns(c.o, a.log \o b.log \o c.log, "this")

\* add(v)
add(o, v) ==
    _set(o, Plus(o._x, v.x), Plus(o._y, v.y), Plus(o._z, OrElse(v.z, Num(0))), 0)

\* sub(v)
sub(o, v) ==
    _set(o, Minus(o._x, v.x), Minus(o._y, v.y), Minus(o._z, OrElse(v.z, Num(0))), 0)

\* scale(x, y = x, z = 1)
scale(o, x, y, z) ==
    _set(o, Times(o._x, x), Times(o._y, Default(y, x)),
         Times(o._z, Default(z, Num(1))), 0)

\* scaleV(v)
scaleV(o, v) ==
    _set(o, Times(o._x, v.x), Times(o._y, v.y), Times(o._z, OrElse(v.z, Num(1))), 0)

\* div(n)
div(o, n) == _set(o, Over(o._x, n), Over(o._y, n), Over(o._z, n), 0)

\* abs(); the z test reads this._Z, which is not a field of the vector
abs(o) ==
    _set(o, IF Lt(o._x, Num(0)) THEN Neg(o._x) ELSE o._x,
            IF Lt(o._y, Num(0)) THEN Neg(o._y) ELSE o._y,
            IF Lt(Undef, Num(0)) THEN Neg(o._z) ELSE o._z, 0)

\* clampSelf(low, high)
clampSelf(o, low, high) ==
    _set(o, clamp(o._x, low, high), clamp(o._y, low, high), clamp(o._z, low, high), 0)

\* minV(v)
minV(o, v) ==
    LET _vz == OrElse(v.z, Num(0))
    IN  _set(o, IF Lt(o._x, v.x) THEN o._x ELSE v.x,
                IF Lt(o._y, v.y) THEN o._y ELSE v.y,
                IF Lt(o._z, _vz) THEN o._z ELSE _vz, 0)

\* maxV(v)
maxV(o, v) ==
    LET _vz == OrElse(v.z, Num(0))
    IN  _set(o, IF Gt(o._x, v.x) THEN o._x ELSE v.x,
                IF Gt(o._y, v.y) THEN o._y ELSE v.y,
                IF Gt(o._z, _vz) THEN o._z ELSE _vz, 0)

\* floorSelf()
floorSelf(o) == _set(o, Floor(o._x), Floor(o._y), Floor(o._z), 0)

\* ceilSelf()
ceilSelf(o) == _set(o, Ceil(o._x), Ceil(o._y), Ceil(o._z), 0)

\* negateSelf()
negateSelf(o) == _set(o, Neg(o._x), Neg(o._y), Neg(o._z), 0)

\* copy(v)
copy(o, v) == _set(o, v.x, v.y, OrElse(v.z, Num(0)), 0)

\* perp()
perp(o) == _set(o, o._y, Neg(o._x), o._z, 0)

\* rotate(angle, v); the angle is given by c = Math.cos(angle) and
\* s = Math.sin(angle)
rotate(o, c, s, v) ==
    LET cx == IF v.obj THEN v.x ELSE Num(0)
        cy == IF v.obj THEN v.y ELSE Num(0)
        x == Minus(o._x, cx)
        y == Minus(o._y, cy)
    IN  _set(o, Plus(Minus(Times(x, c), Times(y, s)), cx),
                Plus(Plus(Times(x, s), Times(y, c)), cy), o._z, 0)

\* cross(v)
cross(o, v) ==
    LET ax == o._x
        ay == o._y
        az == o._z
        bx == v.x
        by == v.y
        bz == v.z
    IN  _set(o, Minus(Times(ay, bz), Times(az, by)),
                Minus(Times(az, bx), Times(ax, bz)),
                Minus(Times(ax, by), Times(ay, bx)), 0)

\* lerp(v, alpha)
lerp(o, v, alpha) ==
    _set(o, Plus(o._x, Times(Minus(v.x, o._x), alpha)),
            Plus(o._y, Times(Minus(v.y, o._y), alpha)),
            Plus(o._z, Times(Minus(v.z, o._z), alpha)), 0)

\* moveTowards(target, step)
moveTowards(o, target, step) ==
    LET dx == Minus(o._x, target.x)
        dy == Minus(o._y, target.y)
        distance == Sqrt(Plus(Times(dx, dx), Times(dy, dy)))
        cosAngle == CosAtan2(Minus(target.y, o._y), Minus(target.x, o._x))
        sinAngle == SinAtan2(Minus(target.y, o._y), Minus(target.x, o._x))
    IN  IF StrictEq(distance, Num(0))
           \/ (Ge(step, Num(0)) /\ Le(distance, Times(step, step)))
        THEN Returns(o, <<>>, "target")
        ELSE _set(o, Plus(o._x, Times(cosAngle, step)),
                     Plus(o._y, Times(sinAngle, step)), o._z, 0)


\* a vector read as the argument of a method: its x, y and z getters
AsArg(o) == Vec(o._x, o._y, o._z)

\* equals(v)
equals(o, v) ==
    /\ StrictEq(o._x, v.x)
    /\ StrictEq(o._y, v.y)
    /\ StrictEq(o._z, OrElse(v.z, o._z))

\* an instance released to the pool, and the empty pool
Released(o) == [obj |-> TRUE, o |-> o]
NoInstance == [obj |-> FALSE, o |-> Blank]

\* pool.pull("ObservableVector3d", x, y, z, settings): a released instance
\* is re-initialised through onResetEvent, otherwise one is constructed
pull(recycled, x, y, z, settings) ==
    IF recycled.obj
    THEN onResetEvent(recycled.o, x, y, z, settings)
    ELSE constructor(x, y, z, settings)

\* dot(v)
dot(o, v) ==
    Plus(Plus(Times(o._x, v.x), Times(o._y, v.y)), Times(o._z, OrElse(v.z, Num(1))))

\* what a call on the vector o that creates a vector does: o afterwards, the
\* callback invocations, and the vector made by the construction c
New(o, c) == [o |-> o, log |-> c.log, ret |-> "new", threw |-> c.threw, made |-> c.o]

\* clone passing the scope along with the callback, as clamp does
clone_withScope(o, recycled) ==
    New(o, pull(recycled, o._x, o._y, o._z, Settings(o.onUpdate, o.scope)))

\* clone()
clone(o, recycled) ==
    New(o, pull(recycled, o._x, o._y, o._z, Settings(o.onUpdate, "undefined")))

\* clamp(low, high)
clampNew(o, low, high) ==
    New(o, constructor(clamp(o._x, low, high), clamp(o._y, low, high),
                       clamp(o._z, low, high), Settings(o.onUpdate, o.scope)))

\* floor()
floor(o) ==
    New(o, constructor(Floor(o._x), Floor(o._y), Floor(o._z),
                       Settings(o.onUpdate, o.scope)))

\* ceil()
ceil(o) ==
    New(o, constructor(Ceil(o._x), Ceil(o._y), Ceil(o._z),
                       Settings(o.onUpdate, o.scope)))

\* negate written as negateSelf: it writes to the vector it is called on
negate_inPlace(o) ==
    LET r == negateSelf(o)
    IN  [o |-> r.o, log |-> r.log, ret |-> "this", threw |-> r.threw, made |-> r.o]

\* negate()
negate(o) ==
    New(o, constructor(Neg(o._x), Neg(o._y), Neg(o._z),
                       Settings(o.onUpdate, o.scope)))

\* ------------------------------------------------------------------------
\* Inputs
\* ------------------------------------------------------------------------
\* the coordinates given to the constructor
StartCoords ==
    { <<Num(10), Num(100), Num(20)>>, <<Rat(-1, 2), Num(3), Num(-4)>>,
      <<Undef, Undef, Undef>> }

\* the coordinates given to _set and setMuted
WriteCoords ==
    { <<Num(100), Num(100), Num(100)>>, <<Num(1), Num(2), Undef>>,
      <<Num(-1), Num(0), NaN>> }

\* the coordinates given to onResetEvent
ResetCoords == { <<Num(1), Num(2), Num(3)>>, <<Undef, Undef, Undef>> }

\* the value assigned to a single coordinate
WriteValues == { Num(42), Rat(-3, 2) }

\* the vectors passed to add, sub, scaleV, minV, maxV, copy, cross and lerp:
\* a Vector3d, a Vector3d with a zero component, a Vector2d
V3 == Vec(Num(10), Num(10), Num(10))
V3Zero == Vec(Num(-1), Num(0), Num(2))
V2 == Vec(Num(3), Num(4), Undef)
\* a Vector3d in the plane z = 0
V3Flat == Vec(Num(2), Num(1), Num(0))

\* the settings passed to the constructor and to onResetEvent
NullSettings == [kind |-> "null", onUpdate |-> "undefined", scope |-> "undefined"]
SettingsOf(sc) ==
    {NoSettings, NullSettings, Settings("cbNone", "undefined")}
        \cup {Settings(fn, sc) : fn \in Functions \cup NonFunctions}

\* the settings passed to onResetEvent: none, null, a callback without or
\* with a scope, and an onUpdate that is not a function
ResetSettings ==
    { NoSettings, NullSettings, Settings("cbNone", "undefined"),
      Settings("cbX", "scopeB"), Settings("notAFunction", "scopeB") }

\* the arguments of setCallback
CallbackArgs ==
    {<<fn, "scopeB">> : fn \in Functions \cup NonFunctions}
        \cup {<<"cbNone", "undefined">>, <<"undefined", "undefined">>}

\* scale factors, divisors, clamp ranges, interpolation factors
ScaleArgs == { <<Num(2), Undef, Undef>>, <<Num(0), Num(-1), Rat(1, 2)>> }
Divisors == { Num(0), Num(2) }
ClampRanges == { <<Num(0), Num(10)>> }
Alphas == { Num(0), Rat(1, 2) }

\* rotation angles, as <<Math.cos(angle), Math.sin(angle)>>
Angles == { <<Num(1), Num(0)>>, <<Rat(3, 5), Rat(4, 5)>> }
Pivots == { NoArg, Vec(Num(1), Num(1), Undef) }

\* moveTowards: where the target lies relative to the vector, and the step
TargetOffsets ==
    { <<Num(0), Num(0)>>, <<Num(3), Num(0)>>, <<Num(3), Num(4)>>,
      <<Num(0), Rat(-1, 2)>> }
Steps == { Num(2), Rat(1, 2), Num(-1) }
\* the pairs of an offset and a step moveTowards is called with; the pairs
\* left out take a branch that another pair with the same offset takes
MoveCases ==
    (TargetOffsets \X Steps)
        \ { << <<Num(0), Num(0)>>, Num(2) >>, << <<Num(0), Num(0)>>, Rat(1, 2) >>,
            << <<Num(3), Num(0)>>, Num(-1) >>, << <<Num(3), Num(4)>>, Rat(1, 2) >>,
            << <<Num(0), Rat(-1, 2)>>, Num(-1) >> }

\* what the pool holds when clone pulls from it: nothing, or an instance
\* released with coordinates, a callback and a scope of its own
PoolEntries ==
    { NoInstance,
      Released([_x |-> Num(1), _y |-> Num(1), _z |-> Num(1),
                onUpdate |-> "cbFull", scope |-> "scopeA"]) }

\* ------------------------------------------------------------------------
\* me.Entity (entity.js)
\* ------------------------------------------------------------------------
\* a string given where a number is expected
StringValue == [k |-> "str", n |-> 32, d |-> 1]

\* typeof v, for a number, undefined or a string
TypeOf(v) ==
    CASE v.k \in {"num", "nan", "inf"} -> "number"
      [] v.k = "undef" -> "undefined"
      [] v.k = "str" -> "string"

\* ~~v for the values at hand: the integer part of a number, 0 for NaN,
\* an infinity and undefined
ToInt(v) ==
    IF IsNum(v) THEN (IF v.n < 0 THEN -((-v.n) \div v.d) ELSE v.n \div v.d) ELSE 0

\* String.prototype.toLowerCase on the entity names at hand
toLowerCase(s) == IF s = "Player" THEN "player" ELSE s

\* me.collision.types: the names it defines
CollisionTypes == {"NO_OBJECT", "ENEMY_OBJECT", "PLAYER_OBJECT", "ACTION_OBJECT"}

\* the settings argument of me.Entity (me.ObjectSettings); given is FALSE
\* when the argument is left out
ObjectSettings(width, height, image, color, name, getShape, mask, ctype) ==
    [given |-> TRUE, width |-> width, height |-> height, image |-> image,
     transparent_color |-> color, spritewidth |-> Undef,
     spriteheight |-> Undef, spacing |-> Undef, margin |-> Undef,
     name |-> name, type |-> "entityType", getShape |-> getShape,
     collisionMask |-> mask, collisionType |-> ctype]
NoObjectSettings ==
    [ObjectSettings(Undef, Undef, "null", "null", "null", "undefined", Undef,
                    "undefined") EXCEPT !.given = FALSE]

\* the values of the fields renderable, body and pos of an entity
NoRenderable(state) ==
    [state |-> state, image |-> "none", spritewidth |-> 0, spriteheight |-> 0,
     spacing |-> 0, margin |-> 0, transparent |-> FALSE]
NoBody(state) ==
    [state |-> state, shapes |-> 0, collisionMask |-> Undef,
     collisionType |-> "default"]
NoPos == [set |-> FALSE, x |-> Undef, y |-> Undef, width |-> Undef, height |-> Undef]

\* an object on which init has not run yet
NewObject ==
    [renderable |-> NoRenderable("absent"), bounds |-> "absent", pos |-> NoPos,
     name |-> "absent", type |-> "absent", alive |-> FALSE,
     lastflipX |-> FALSE, lastflipY |-> FALSE, body |-> NoBody("absent")]

\* what a call on an entity does: the object afterwards, the calls made to
\* other objects, whether it threw and the name of the error
Done(this, calls) == [this |-> this, calls |-> calls, threw |-> FALSE, error |-> "none"]
Thrown(this, calls, error) == [this |-> this, calls |-> calls, threw |-> TRUE, error |-> error]

\* me.Renderable.init(x, y, width, height)
Renderable_init(this, x, y, width, height) ==
    [this EXCEPT !.pos = [set |-> TRUE, x |-> x, y |-> y, width |-> width,
                          height |-> height]]

\* new me.AnimationSheet(0, 0, {image, spritewidth, spriteheight, spacing,
\* margin}), and setTransparency when a transparent color is given
AnimationSheet(settings) ==
    [state |-> "object",
     image |-> IF settings.image = "object" THEN "settings.image" ELSE "loader image",
     spritewidth |-> ToInt(OrElse(settings.spritewidth, settings.width)),
     spriteheight |-> ToInt(OrElse(settings.spriteheight, settings.height)),
     spacing |-> ToInt(settings.spacing), margin |-> ToInt(settings.margin),
     transparent |-> settings.transparent_color # "null"]

\* updateBounds()
updateBounds(this) ==
    Done([this EXCEPT !.bounds = "rect"],
         (IF this.bounds # "rect" THEN <<"new me.Rect">> ELSE <<>>)
           \o <<"bounds.pos.setV.add", "bounds.resize">>)

\* init from the call of the super constructor on (lines 134 to 214)
Entity_setup(this, x, y, settings) ==
    LET t1 == Renderable_init(this, x, y, settings.width, settings.height)
        hasImage == settings.image # "null"
        t2 == IF hasImage THEN [t1 EXCEPT !.renderable = AnimationSheet(settings)]
              ELSE t1
        c2 == <<"me.Renderable.init">>
              \o (IF hasImage /\ settings.image # "object"
                  THEN <<"me.loader.getImage">> ELSE <<>>)
              \o (IF hasImage THEN <<"new me.AnimationSheet">> ELSE <<>>)
              \o (IF hasImage /\ settings.transparent_color # "null"
                  THEN <<"renderable.setTransparency">> ELSE <<>>)
        hasShape == settings.getShape = "function"
        t3 == [t2 EXCEPT !.name = IF settings.name # "null"
                                  THEN toLowerCase(settings.name) ELSE "",
                         !.type = settings.type,
                         !.alive = TRUE,
                         !.lastflipX = FALSE,
                         !.lastflipY = FALSE,
                         !.body = [NoBody("object") EXCEPT
                                      !.shapes = IF hasShape THEN 1 ELSE 0]]
        c3 == c2 \o <<"new me.Body">>
              \o (IF hasShape THEN <<"settings.getShape", "body.addShape">> ELSE <<>>)
        u == updateBounds(t3)
        hasMask == TypeOf(settings.collisionMask) # "undefined"
        t4 == IF hasMask
              THEN [u.this EXCEPT !.body.collisionMask = settings.collisionMask]
              ELSE u.this
        c4 == c3 \o u.calls
              \o (IF hasMask THEN <<"body.setCollisionMask">> ELSE <<>>)
    IN  IF settings.collisionType = "undefined" THEN Done(t4, c4)
        ELSE IF settings.collisionType \in CollisionTypes
        THEN Done([t4 EXCEPT !.body.collisionType = settings.collisionType], c4)
        ELSE Thrown(t4, c4, "me.Entity.Error")

\* init testing the mandatory properties once the entity is set up
Entity_init_lateCheck(this, x, y, settings) ==
    LET t == [this EXCEPT !.renderable = NoRenderable("null"), !.bounds = "undefined"]
    IN  IF ~settings.given THEN Thrown(t, <<>>, "TypeError")
        ELSE LET r == Entity_setup(t, x, y, settings)
             IN  IF TypeOf(settings.width) # "number"
                    \/ TypeOf(settings.height) # "number"
                 THEN Thrown(r.this, r.calls, "me.Entity.Error")
                 ELSE r

\* me.Entity.init(x, y, settings)
Entity_init(this, x, y, settings) ==
    LET t == [this EXCEPT !.renderable = NoRenderable("null"), !.bounds = "undefined"]
    IN  IF ~settings.given THEN Thrown(t, <<>>, "TypeError")
        ELSE IF TypeOf(settings.width) # "number"
                \/ TypeOf(settings.height) # "number"
        THEN Thrown(t, <<>>, "me.Entity.Error")
        ELSE Entity_setup(t, x, y, settings)

\* flipX(flip) and flipY(flip): axis is "X" or "Y"
flip_(this, axis, flip) ==
    LET lastflip == IF axis = "X" THEN this.lastflipX ELSE this.lastflipY
    IN  IF flip # lastflip
        THEN Done(IF axis = "X" THEN [this EXCEPT !.lastflipX = flip]
                  ELSE [this EXCEPT !.lastflipY = flip],
                  (IF this.renderable.state = "object"
                   THEN <<"renderable.flip" \o axis>> ELSE <<>>)
                    \o (IF this.body.state = "object"
                        THEN <<"body.flip" \o axis>> ELSE <<>>))
        ELSE Done(this, <<>>)
flipX(this, flip) == flip_(this, "X", flip)
flipY(this, flip) == flip_(this, "Y", flip)

\* destroy()
destroy(this) ==
    LET hasRenderable == this.renderable.state = "object"
        t == IF hasRenderable THEN [this EXCEPT !.renderable = NoRenderable("null")]
             ELSE this
        c == IF hasRenderable THEN <<"renderable.destroy">> ELSE <<>>
    IN  IF this.body.state # "object" THEN Thrown(t, c, "TypeError")
        ELSE Done([t EXCEPT !.body = NoBody("null")], c \o <<"body.destroy">>)

\* ------------------------------------------------------------------------
\* me.LevelEntity (entity.js)
\* ------------------------------------------------------------------------
\* a string or undefined, as the operand of && and ||
StringTruthy(s) == s \notin {"undefined", "null", ""}

\* the settings of a level entity: those of an entity, and to, fade, duration
LevelSettings(base, to, fade, duration) ==
    [base |-> base, to |-> to, fade |-> fade, duration |-> duration]

\* what a level entity does to the rest of the game: a goTo call it
\* receives, me.game.viewport.fadeIn, me.game.viewport.fadeOut and
\* me.levelDirector.loadLevel(level), the latter with the method it is
\* called from
Asked(level) == [ev |-> "goTo", level |-> level, from |-> "caller"]
FadeInStarted == [ev |-> "fadeIn", level |-> "none", from |-> "goTo"]
FadeOutStarted == [ev |-> "fadeOut", level |-> "none", from |-> "onFadeComplete"]
LevelLoaded(level, from) == [ev |-> "loadLevel", level |-> level, from |-> from]

\* an object on which me.LevelEntity.init has not run yet
NewLevelObject ==
    [entity |-> NewObject, nextlevel |-> "absent", fade |-> "absent",
     duration |-> Undef, fading |-> FALSE, gotolevel |-> "absent",
     isSolid |-> TRUE]

\* what a call on a level entity does: the object afterwards, whether the
\* viewport holds a fade-in callback, the events, the value returned
LevelDone(this, pending, events, ret) ==
    [this |-> this, pending |-> pending, events |-> events, ret |-> ret,
     threw |-> FALSE, error |-> "none"]
LevelThrown(this, pending, error) ==
    [this |-> this, pending |-> pending, events |-> <<>>, ret |-> "none",
     threw |-> TRUE, error |-> error]

\* me.LevelEntity.init(x, y, settings)
LevelEntity_init(this, x, y, settings) ==
    LET r == Entity_init(this.entity, x, y, settings.base)
    IN  IF r.threw THEN LevelThrown([this EXCEPT !.entity = r.this], FALSE, r.error)
        ELSE LevelDone([entity |-> [r.this EXCEPT !.name = "levelEntity",
                                                  !.body.collisionType = "ACTION_OBJECT"],
                        nextlevel |-> settings.to,
                        fade |-> settings.fade,
                        duration |-> settings.duration,
                        fading |-> FALSE,
                        gotolevel |-> settings.to,
                        isSolid |-> FALSE],
                       FALSE, <<>>, "undefined")

\* onFadeComplete()
onFadeComplete(this, pending) ==
    LevelDone(this, pending,
              <<LevelLoaded(this.gotolevel, "onFadeComplete"), FadeOutStarted>>,
              "undefined")

\* goTo starting a fade whenever fade and duration are given
goTo_withoutFadingTest(this, pending, level) ==
    LET gotolevel == IF StringTruthy(level) THEN level ELSE this.nextlevel
        t == [this EXCEPT !.gotolevel = gotolevel]
    IN  IF StringTruthy(this.fade) /\ Truthy(this.duration)
        THEN LevelDone([t EXCEPT !.fading = TRUE], TRUE,
                       <<Asked(level), FadeInStarted>>, "undefined")
        ELSE LevelDone(t, pending,
                       <<Asked(level), LevelLoaded(gotolevel, "goTo")>>, "undefined")

\* goTo(level)
goTo(this, pending, level) ==
    LET gotolevel == IF StringTruthy(level) THEN level ELSE this.nextlevel
        t == [this EXCEPT !.gotolevel = gotolevel]
    IN  IF StringTruthy(this.fade) /\ Truthy(this.duration)
        THEN IF ~this.fading
             THEN LevelDone([t EXCEPT !.fading = TRUE], TRUE,
                            <<Asked(level), FadeInStarted>>, "undefined")
             ELSE LevelDone(t, pending, <<Asked(level)>>, "undefined")
        ELSE LevelDone(t, pending,
                       <<Asked(level), LevelLoaded(gotolevel, "goTo")>>, "undefined")

\* onCollision()
onCollision(this, pending) ==
    IF this.entity.name = "levelEntity"
    THEN [goTo(this, pending, "undefined") EXCEPT !.ret = "false"]
    ELSE LevelDone(this, pending, <<>>, "false")

\* ------------------------------------------------------------------------
\* State
\* ------------------------------------------------------------------------
VARIABLES
    obj,     \* the fields of the vector: _x, _y, _z, onUpdate, scope
    handed,  \* TRUE once a constructor call has returned the vector
    last,    \* the last call: its name, arguments, the vector before it,
             \* the callback invocations it made, its result
    nops,    \* the number of method calls made on the vector
    out,     \* what the last call returned, when it is a new vector, a
             \* boolean or a number
    ent,     \* an entity: its fields, whether its construction returned it,
             \* and the last call made on it
    lev,     \* a level entity: its fields, whether its construction
             \* returned it, the last call made on it and the number of
             \* calls
    game     \* the viewport and the level director: whether a fade-in
             \* callback is waiting, and what the level entity has done to
             \* them so far

vars == <<obj, handed, last, nops, out, ent, lev, game>>

\* the values of out
NoOut == [kind |-> "none", vec |-> Blank, bool |-> FALSE, num |-> Undef]
OutVector(o) == [kind |-> "vector", vec |-> o, bool |-> FALSE, num |-> Undef]
OutBoolean(b) == [kind |-> "boolean", vec |-> Blank, bool |-> b, num |-> Undef]
OutNumber(n) == [kind |-> "number", vec |-> Blank, bool |-> FALSE, num |-> n]

Call(op, args, pre, r) ==
    [op |-> op, args |-> args, pre |-> pre, log |-> r.log, ret |-> r.ret,
     threw |-> r.threw]

\* the values of ent: status is "none" before new me.Entity, "constructed"
\* once init has returned and "failed" when init threw
EntityCall(status, op, args, r) ==
    [status |-> status, this |-> r.this, op |-> op, args |-> args,
     calls |-> r.calls, threw |-> r.threw, error |-> r.error]
NoEntity == EntityCall("none", "none", <<>>, Done(NewObject, <<>>))

\* the values of lev
LevelCall(status, op, args, r, ncalls) ==
    [status |-> status, this |-> r.this, op |-> op, args |-> args,
     ret |-> r.ret, threw |-> r.threw, error |-> r.error, ncalls |-> ncalls]
NoLevelEntity ==
    LevelCall("none", "none", <<>>, LevelDone(NewLevelObject, FALSE, <<>>, "none"), 0)

Init ==
    /\ obj = Blank
    /\ handed = FALSE
    /\ last = Call("none", <<>>, Blank, Returns(Blank, <<>>, "none"))
    /\ nops = 0
    /\ out = NoOut
    /\ ent = NoEntity
    /\ lev = NoLevelEntity
    /\ game = [pending |-> FALSE, events |-> <<>>]

\* a method call on the vector the caller holds
Do(op, args, r) ==
    /\ obj' = r.o
    /\ last' = Call(op, args, obj, r)
    /\ nops' = nops + 1
    /\ out' = NoOut
    /\ UNCHANGED <<handed, ent, lev, game>>

\* a method call that leaves the vector alone and returns a value
Ask(op, args, log, outcome) ==
    /\ obj' = obj
    /\ last' = Call(op, args, obj, Returns(obj, log, outcome.kind))
    /\ nops' = nops + 1
    /\ out' = outcome
    /\ UNCHANGED <<handed, ent, lev, game>>

CanCall == handed /\ nops < MaxOps

\* new ObservableVector3d(x, y, z, settings)
Construct ==
    /\ ~handed
    /\ \E c \in StartCoords, st \in SettingsOf("scopeA") :
         LET r == constructor(c[1], c[2], c[3], st)
         IN  /\ obj' = r.o
             /\ handed' = ~r.threw
             /\ last' = Call("constructor", <<c, st>>, Blank, r)
             /\ out' = NoOut
             /\ UNCHANGED <<nops, ent, lev, game>>

\* v.onResetEvent(x, y, z, settings), as the pool does on reuse
OnResetEvent ==
    /\ CanCall
    /\ \E c \in ResetCoords, st \in ResetSettings :
         Do("onResetEvent", <<c, st>>, onResetEvent(obj, c[1], c[2], c[3], st))

\* v.x = value
SetX == CanCall /\ \E value \in WriteValues : Do("set x", <<value>>, set_x(obj, value))

\* v.y = value
SetY == CanCall /\ \E value \in WriteValues : Do("set y", <<value>>, set_y(obj, value))

\* v.z = value
SetZ == CanCall /\ \E value \in WriteValues : Do("set z", <<value>>, set_z(obj, value))

\* v._set(x, y, z)
BatchSet ==
    CanCall /\ \E c \in WriteCoords : Do("_set", <<c>>, _set(obj, c[1], c[2], c[3], 0))

\* v.setMuted(x, y, z)
SetMuted ==
    CanCall /\ \E c \in WriteCoords : Do("setMuted", <<c>>, setMuted(obj, c[1], c[2], c[3]))

\* v.setCallback(fn, scope)
SetCallback ==
    /\ CanCall
    /\ \E a \in CallbackArgs :
         Do("setCallback", a, setCallback(obj, a[1], a[2]))

Add == CanCall /\ \E v \in {V3, V2} : Do("add", <<v>>, add(obj, v))

Sub == CanCall /\ \E v \in {V3, V2} : Do("sub", <<v>>, sub(obj, v))

Scale ==
    CanCall /\ \E a \in ScaleArgs : Do("scale", <<a>>, scale(obj, a[1], a[2], a[3]))

ScaleV == CanCall /\ \E v \in {V3Flat, V3Zero, V2} : Do("scaleV", <<v>>, scaleV(obj, v))

Div == CanCall /\ \E n \in Divisors : Do("div", <<n>>, div(obj, n))

Abs == CanCall /\ Do("abs", <<>>, abs(obj))

ClampSelf ==
    CanCall /\ \E c \in ClampRanges : Do("clampSelf", <<c>>, clampSelf(obj, c[1], c[2]))

MinV == CanCall /\ \E v \in {V3Zero, V2} : Do("minV", <<v>>, minV(obj, v))

MaxV == CanCall /\ \E v \in {V3Zero, V2} : Do("maxV", <<v>>, maxV(obj, v))

FloorSelf == CanCall /\ Do("floorSelf", <<>>, floorSelf(obj))

CeilSelf == CanCall /\ Do("ceilSelf", <<>>, ceilSelf(obj))

NegateSelf == CanCall /\ Do("negateSelf", <<>>, negateSelf(obj))

Copy == CanCall /\ \E v \in {V3Zero, V2} : Do("copy", <<v>>, copy(obj, v))

Perp == CanCall /\ Do("perp", <<>>, perp(obj))

Rotate ==
    /\ CanCall
    /\ \E a \in Angles, v \in Pivots : Do("rotate", <<a, v>>, rotate(obj, a[1], a[2], v))

Cross == CanCall /\ \E v \in {V3, V3Zero} : Do("cross", <<v>>, cross(obj, v))

Lerp ==
    CanCall /\ \E v \in {V3Zero}, alpha \in Alphas : Do("lerp", <<v, alpha>>, lerp(obj, v, alpha))

\* v.moveTowards(target, step), target being another vector, placed
\* relative to a vector with finite or NaN x and y so that the distance has
\* a rational root
MoveTowards ==
    /\ CanCall
    /\ ~IsInf(obj._x) /\ ~IsInf(obj._y)
    /\ \E case \in MoveCases :
         LET off == case[1]
             step == case[2]
             target == Vec(Plus(obj._x, off[1]), Plus(obj._y, off[2]), Num(1))
         IN  Do("moveTowards", <<target, step>>, moveTowards(obj, target, step))

\* the vectors v is compared with: the same x and y in the plane z = 0,
\* the same x and y without a z, and another point
EqualsArgs(o) ==
    {Vec(o._x, o._y, Num(0)), Vec(o._x, o._y, Undef), V3Zero}

\* v.equals(w)
Equals ==
    /\ CanCall
    /\ \E v \in EqualsArgs(obj) : Ask("equals", <<v>>, <<>>, OutBoolean(equals(obj, v)))

DotArgs == {Vec(Num(-1), Num(-2), Num(-3)), V3Flat, V2}

\* v.dot(w)
Dot ==
    /\ CanCall
    /\ \E v \in DotArgs : Ask("dot", <<v>>, <<>>, OutNumber(dot(obj, v)))

\* a method call that returns a vector it made
Make(op, args, r) ==
    /\ obj' = r.o
    /\ last' = Call(op, args, obj, r)
    /\ nops' = nops + 1
    /\ out' = OutVector(r.made)
    /\ UNCHANGED <<handed, ent, lev, game>>

\* v.clone()
Clone ==
    CanCall /\ \E recycled \in PoolEntries : Make("clone", <<recycled>>, clone(obj, recycled))

\* v.clamp(low, high)
ClampNew ==
    CanCall /\ \E c \in ClampRanges : Make("clamp", <<c>>, clampNew(obj, c[1], c[2]))

\* v.floor()
FloorNew == CanCall /\ Make("floor", <<>>, floor(obj))

\* v.ceil()
CeilNew == CanCall /\ Make("ceil", <<>>, ceil(obj))

\* v.negate()
NegateNew == CanCall /\ Make("negate", <<>>, negate(obj))

Next ==
    \/ Construct
    \/ OnResetEvent
    \/ SetX
    \/ SetY
    \/ SetZ
    \/ BatchSet
    \/ SetMuted
    \/ SetCallback
    \/ Add
    \/ Sub
    \/ Scale
    \/ ScaleV
    \/ Div
    \/ Abs
    \/ ClampSelf
    \/ MinV
    \/ MaxV
    \/ FloorSelf
    \/ CeilSelf
    \/ NegateSelf
    \/ Copy
    \/ Perp
    \/ Rotate
    \/ Cross
    \/ Lerp
    \/ MoveTowards
    \/ Clone
    \/ ClampNew
    \/ FloorNew
    \/ CeilNew
    \/ NegateNew
    \/ Equals
    \/ Dot

Spec == Init /\ [][Next]_vars

\* ------------------------------------------------------------------------
\* Entities
\* ------------------------------------------------------------------------
\* the settings entities are constructed with: width and height a number,
\* NaN, left out or a string; an image by name or as an object; a shape
\* function, a collision mask and a collision type given or not
EntitySettings ==
    { ObjectSettings(w, h, image, color, name, getShape, mask, type) :
        w \in {Num(32), NaN, Undef, StringValue},
        h \in {Num(16), Undef},
        image \in {"null", "sprites", "object"},
        color \in {"null", "#ff00ff"},
        name \in {"null", "Player"},
        getShape \in {"undefined", "function"},
        mask \in {Undef, Num(1)},
        type \in {"undefined", "ENEMY_OBJECT", "bogus"} }
      \cup {NoObjectSettings}

\* new me.Entity(x, y, settings)
NewEntity ==
    /\ ent.status = "none"
    /\ \E settings \in EntitySettings :
         LET r == Entity_init(NewObject, Num(10), Num(20), settings)
         IN  ent' = EntityCall(IF r.threw THEN "failed" ELSE "constructed",
                               "init", <<settings>>, r)
    /\ UNCHANGED <<obj, handed, last, nops, out, lev, game>>

\* a method call on the entity the caller holds
OnEntity(op, args, r) ==
    /\ ent.status = "constructed"
    /\ ent' = EntityCall("constructed", op, args, r)
    /\ UNCHANGED <<obj, handed, last, nops, out, lev, game>>

\* e.flipX(flip)
FlipX == \E flip \in BOOLEAN : OnEntity("flipX", <<flip>>, flipX(ent.this, flip))

\* e.flipY(flip)
FlipY == \E flip \in BOOLEAN : OnEntity("flipY", <<flip>>, flipY(ent.this, flip))

\* e.updateBounds()
UpdateBounds == OnEntity("updateBounds", <<>>, updateBounds(ent.this))

\* e.destroy()
Destroy == OnEntity("destroy", <<>>, destroy(ent.this))

NextEntity ==
    \/ NewEntity
    \/ FlipX
    \/ FlipY
    \/ UpdateBounds
    \/ Destroy

SpecEntity == Init /\ [][NextEntity]_vars

\* ------------------------------------------------------------------------
\* Level entities
\* ------------------------------------------------------------------------
\* the settings level entities are constructed with: a width given or not,
\* a fade color given or not, a duration given, 0 or not given
LevelEntitySettings ==
    { LevelSettings(ObjectSettings(w, Num(16), "null", "null", "null",
                                   "undefined", Undef, "undefined"),
                    "levelA", fade, duration) :
        w \in {Num(32), Undef},
        fade \in {"undefined", "#000000"},
        duration \in {Undef, Num(0), Num(250)} }

\* the argument of goTo: none, or the name of a level
GoToArgs == {"undefined", "levelB", "levelC"}

\* new me.LevelEntity(x, y, settings)
NewLevelEntity ==
    /\ lev.status = "none"
    /\ \E settings \in LevelEntitySettings :
         LET r == LevelEntity_init(NewLevelObject, Num(10), Num(20), settings)
         IN  lev' = LevelCall(IF r.threw THEN "failed" ELSE "constructed",
                              "init", <<settings>>, r, 0)
    /\ UNCHANGED <<obj, handed, last, nops, out, ent, game>>

\* a call of a method of the level entity
OnLevelEntity(op, args, r, ncalls) ==
    /\ lev' = LevelCall("constructed", op, args, r, ncalls)
    /\ game' = [pending |-> r.pending, events |-> game.events \o r.events]
    /\ UNCHANGED <<obj, handed, last, nops, out, ent>>

\* e.goTo(level)
GoTo ==
    /\ lev.status = "constructed"
    /\ lev.ncalls < MaxLevelCalls
    /\ \E level \in GoToArgs :
         OnLevelEntity("goTo", <<level>>, goTo(lev.this, game.pending, level),
                       lev.ncalls + 1)

\* e.onCollision(), called by the collision detection
OnCollision ==
    /\ lev.status = "constructed"
    /\ lev.ncalls < MaxLevelCalls
    /\ OnLevelEntity("onCollision", <<>>, onCollision(lev.this, game.pending),
                     lev.ncalls + 1)

\* the fade-in completes: the viewport calls the callback it was given,
\* onFadeComplete bound to the level entity, once
FadeComplete ==
    /\ lev.status = "constructed"
    /\ game.pending
    /\ OnLevelEntity("onFadeComplete", <<>>, onFadeComplete(lev.this, FALSE),
                     lev.ncalls)

NextLevel ==
    \/ NewLevelEntity
    \/ GoTo
    \/ OnCollision
    \/ FadeComplete

SpecLevel == Init /\ [][NextLevel]_vars


\* ------------------------------------------------------------------------
\* Properties
\* ------------------------------------------------------------------------
\* the callback invocations the last call made itself (not those made by a
\* write nested in a callback)
Own == SelectSeq(last.log, LAMBDA e : e.depth = 0)

\* the coordinates of a vector
Coords(o) == <<o._x, o._y, o._z>>

\* the settings supply a callable onUpdate
Callable(st) == st.kind = "object" /\ st.onUpdate \in Functions

\* C1: constructing an ObservableVector3d with no settings object, or with
\* settings whose onUpdate is not a function, throws, and the caller never
\* holds an observable vector without a bound callback: a constructor call
\* that returned was given a function and has bound it.
C1_ConstructionRequiresCallback ==
    last.op = "constructor" =>
        /\ ~Callable(last.args[2]) => (last.threw /\ ~handed)
        /\ handed => /\ Callable(last.args[2])
                     /\ obj.onUpdate = last.args[2].onUpdate

C1_Witness ==
    /\ last.op = "constructor"
    /\ last.args[2].kind = "undefined"
    /\ last.threw
    /\ ~handed

\* C2: a vector the caller holds always has a callable onUpdate; setCallback
\* with a non-function throws and leaves the vector as it was; a successful
\* setCallback replaces the callback and the scope and nothing else; a call
\* that throws leaves the callback and the scope as they were.
C2_CallbackAlwaysCallable ==
    /\ handed => obj.onUpdate \in Functions
    /\ (handed /\ last.threw) =>
           (obj.onUpdate = last.pre.onUpdate /\ obj.scope = last.pre.scope)
    /\ last.op = "setCallback" =>
           IF last.args[1] \in Functions
           THEN /\ ~last.threw
                /\ obj.onUpdate = last.args[1]
                /\ obj.scope = IF last.args[2] = "undefined" THEN "null"
                                         ELSE last.args[2]
                /\ Coords(obj) = Coords(last.pre)
           ELSE last.threw /\ obj = last.pre

C2_Witness ==
    /\ last.op = "setCallback"
    /\ last.args[1] = "notAFunction"
    /\ last.threw
    /\ obj.onUpdate \in Functions

\* C3: v.x = value (and likewise y, z) invokes the callback exactly once,
\* with the scope as receiver and the arguments (new x, new y, new z, old x,
\* old y, old z) in which only the written axis carries value; the axis is
\* committed to the returned value when the returned object has its key, and
\* to value otherwise.
C3_SetterCallsOnceAndCommits ==
    LET p == last.pre
        v == last.args[1]
    IN  /\ last.op \in {"set x", "set y", "set z"} =>
               /\ Len(Own) = 1
               /\ Own[1].this = p.scope
               /\ Own[1].fn = p.onUpdate
        /\ last.op = "set x" =>
               /\ Own[1].args = <<v, p._y, p._z, p._x, p._y, p._z>>
               /\ obj._x = IF HasKey(Own[1].ret, "x") THEN Own[1].ret.x ELSE v
        /\ last.op = "set y" =>
               /\ Own[1].args = <<p._x, v, p._z, p._x, p._y, p._z>>
               /\ obj._y = IF HasKey(Own[1].ret, "y") THEN Own[1].ret.y ELSE v
        /\ last.op = "set z" =>
               /\ Own[1].args = <<p._x, p._y, v, p._x, p._y, p._z>>
               /\ obj._z = IF HasKey(Own[1].ret, "z") THEN Own[1].ret.z ELSE v

C3_Witness ==
    /\ last.op = "set x"
    /\ last.args[1] = Num(42)
    /\ Len(Own) = 1
    /\ Own[1].ret = RetObject({"x"}, Num(7), Undef, Undef)
    /\ obj._x = Num(7)

\* C4: with a callback that does not write to the vector, a single
\* coordinate write leaves the two other coordinates, the callback and the
\* scope as they were, also when the returned object has keys of the other
\* axes.
C4_SetterFrame ==
    LET p == last.pre
    IN  (last.op \in {"set x", "set y", "set z"} /\ p.onUpdate \in PureFunctions) =>
            /\ obj.onUpdate = p.onUpdate
            /\ obj.scope = p.scope
            /\ last.op # "set x" => obj._x = p._x
            /\ last.op # "set y" => obj._y = p._y
            /\ last.op # "set z" => obj._z = p._z

C4_Witness ==
    /\ last.op = "set y"
    /\ Len(Own) = 1
    /\ Own[1].ret.keys = {"x", "y", "z"}
    /\ obj._x # Own[1].ret.x
    /\ obj._z # Own[1].ret.z
    /\ obj._y = Own[1].ret.y


\* the methods that write through the batch write _set
BatchMethods ==
    {"add", "sub", "scale", "scaleV", "div", "abs", "clampSelf", "minV", "maxV",
     "floorSelf", "ceilSelf", "negateSelf", "copy", "perp", "rotate", "cross", "lerp"}

\* the methods documented as returning a reference to this object
ChainingMethods ==
    BatchMethods \cup {"_set", "setMuted", "setCallback", "onResetEvent", "moveTowards"}

\* C5: the batch write is all-or-nothing: with a callback that does not
\* write to the vector, the coordinates become the returned x, y, z when the
\* returned object has the three keys, and exactly the attempted x, y, z in
\* every other case (a z that was not passed counting as its default 0).
C5_BatchWriteAllOrNothing ==
    (last.op \in BatchMethods \cup {"_set"} /\ last.pre.onUpdate \in PureFunctions) =>
        LET r == Own[1].ret
            a == Own[1].args
        IN  IF r.obj /\ r.keys = {"x", "y", "z"}
            THEN Coords(obj) = <<r.x, r.y, r.z>>
            ELSE Coords(obj) = <<a[1], a[2], Default(a[3], Num(0))>>

\* C6: setMuted and onResetEvent invoke no callback and set the coordinates
\* (a z that is missing, 0 or NaN is stored as 0); setMuted leaves the
\* callback and the scope alone, onResetEvent leaves them alone when no
\* settings are given and binds the given ones when they are.
C6_MutedPathsNeverNotify ==
    LET p == last.pre
        c == last.args[1]
    IN  /\ last.op \in {"setMuted", "onResetEvent"} => last.log = <<>>
        /\ last.op = "setMuted" =>
               /\ ~last.threw
               /\ obj._x = c[1]
               /\ obj._y = c[2]
               /\ obj._z = IF Truthy(c[3]) THEN c[3] ELSE Num(0)
               /\ obj.onUpdate = p.onUpdate
               /\ obj.scope = p.scope
        /\ last.op = "onResetEvent" =>
               /\ obj._x = Default(c[1], Num(0))
               /\ obj._y = Default(c[2], Num(0))
               /\ obj._z = IF Truthy(c[3]) THEN c[3] ELSE Num(0)
               /\ last.args[2].kind = "undefined" =>
                      (obj.onUpdate = p.onUpdate /\ obj.scope = p.scope)
               /\ (obj.onUpdate # p.onUpdate \/ obj.scope # p.scope) =>
                      /\ last.args[2].kind = "object"
                      /\ obj.onUpdate = last.args[2].onUpdate

C6_Witness ==
    /\ last.op = "onResetEvent"
    /\ last.args[2].kind = "undefined"
    /\ Coords(obj) # Coords(last.pre)
    /\ last.log = <<>>
    /\ obj.onUpdate = last.pre.onUpdate

\* C7 as stated: a reset call that does not supply a callable onUpdate is
\* rejected, and after a successful reset the bound callback is the one
\* supplied in that call.
C7_ResetRequiresCallback ==
    last.op = "onResetEvent" =>
        /\ ~Callable(last.args[2]) => last.threw
        /\ ~last.threw => obj.onUpdate = last.args[2].onUpdate

\* C7 amended: a reset call whose settings are given without a callable
\* onUpdate throws and keeps the bound callback and scope; a reset call
\* without settings succeeds and keeps them too; a successful reset call with
\* settings binds the callback and the scope supplied in that call.
C7_ResetRebindsGivenSettings ==
    LET p == last.pre
        st == last.args[2]
    IN  last.op = "onResetEvent" =>
            /\ last.threw <=> (st.kind # "undefined" /\ ~Callable(st))
            /\ (last.threw \/ st.kind = "undefined") =>
                   (obj.onUpdate = p.onUpdate /\ obj.scope = p.scope)
            /\ (~last.threw /\ st.kind = "object") =>
                   /\ obj.onUpdate = st.onUpdate
                   /\ obj.scope = IF st.scope = "undefined" THEN "null" ELSE st.scope

C7_Witness ==
    /\ last.op = "onResetEvent"
    /\ last.args[2].kind = "undefined"
    /\ ~last.threw
    /\ last.ret = "this"
    /\ obj.onUpdate = last.pre.onUpdate
    /\ obj.onUpdate \in Functions

\* C8: each call of a method that writes through the batch write invokes the
\* callback exactly once, before any coordinate has changed, with the
\* attempted coordinates followed by the coordinates before the call, and a
\* callback that returns nothing lets the attempted x and y (and a z other
\* than 0 and NaN) be committed; add passes the sums, and add((10, 10, 10))
\* on (10, 100, 20) calls it with (20, 110, 30, 10, 100, 20) and leaves
\* y = 110.
C8_MethodCallsOnceBeforeCommit ==
    LET p == last.pre
    IN  /\ last.op \in BatchMethods =>
               /\ ~last.threw
               /\ Len(Own) = 1
               /\ Own[1].fn = p.onUpdate
               /\ Own[1].this = p.scope
               /\ Own[1].seen = Coords(p)
               /\ SubSeq(Own[1].args, 4, 6) = Coords(p)
               /\ p.onUpdate = "cbNone" =>
                      /\ Len(last.log) = 1
                      /\ obj._x = Own[1].args[1]
                      /\ obj._y = Own[1].args[2]
                      /\ Truthy(Own[1].args[3]) => obj._z = Own[1].args[3]
        /\ last.op = "add" =>
               /\ Own[1].args[1] = Plus(p._x, last.args[1].x)
               /\ Own[1].args[2] = Plus(p._y, last.args[1].y)
        /\ (last.op = "add" /\ Coords(p) = <<Num(10), Num(100), Num(20)>>
              /\ last.args[1] = V3) =>
               /\ Own[1].args = <<Num(20), Num(110), Num(30), Num(10), Num(100), Num(20)>>
               /\ p.onUpdate = "cbNone" => obj._y = Num(110)

C8_Witness ==
    /\ last.op = "add"
    /\ Coords(last.pre) = <<Num(10), Num(100), Num(20)>>
    /\ last.args[1] = V3
    /\ Len(last.log) = 1
    /\ last.log[1].args = <<Num(20), Num(110), Num(30), Num(10), Num(100), Num(20)>>
    /\ Coords(obj) = <<Num(20), Num(110), Num(30)>>

\* C9: every method documented as returning a reference to this object
\* returns the vector it was called on, whenever it returns.
C9_MethodsReturnThis ==
    (last.op \in ChainingMethods /\ ~last.threw) => last.ret = "this"

\* C10: when the vector coincides with target in the XY plane, or step is
\* not negative and the vector is within step of target, then after
\* moveTowards(target, step), the callback returning nothing, x and y are
\* those of target and z is unchanged.
C10_MoveTowardsSnaps ==
    LET p == last.pre
        target == last.args[1]
        step == last.args[2]
        dx == Minus(p._x, target.x)
        dy == Minus(p._y, target.y)
        d2 == Plus(Times(dx, dx), Times(dy, dy))
    IN  (/\ last.op = "moveTowards"
         /\ p.onUpdate = "cbNone"
         /\ \/ IsZero(d2)
            \/ (Ge(step, Num(0)) /\ Le(d2, Times(step, step))))
        => (obj._x = target.x /\ obj._y = target.y /\ obj._z = p._z)

\* no coordinate of the vector is NaN
NoNaN(o) == ~IsNaN(o._x) /\ ~IsNaN(o._y) /\ ~IsNaN(o._z)

\* C11 as stated: clone() returns a vector pulled from the pool whose
\* coordinates are the original's, so that v.clone().equals(v) is true, bound
\* to the original's callback with a null scope; it invokes no callback and
\* leaves the original as it was.
C11_CloneEqualsOriginal ==
    last.op = "clone" =>
        /\ out.kind = "vector"
        /\ Coords(out.vec) = Coords(last.pre)
        /\ equals(out.vec, AsArg(last.pre))
        /\ out.vec.onUpdate = last.pre.onUpdate
        /\ out.vec.scope = "null"
        /\ last.log = <<>>
        /\ obj = last.pre

\* C11 amended: the same for every vector v without a NaN coordinate; when
\* the x or the y of v is NaN, v.clone().equals(v) is false (NaN is not
\* equal to itself), the callback, scope and frame parts still holding.
C11_CloneEqualsUnlessNaN ==
    last.op = "clone" =>
        /\ out.kind = "vector"
        /\ ~last.threw
        /\ NoNaN(last.pre) =>
               /\ Coords(out.vec) = Coords(last.pre)
               /\ equals(out.vec, AsArg(last.pre))
        /\ (IsNaN(last.pre._x) \/ IsNaN(last.pre._y)) =>
               ~equals(out.vec, AsArg(last.pre))
        /\ out.vec.onUpdate = last.pre.onUpdate
        /\ out.vec.scope = "null"
        /\ last.log = <<>>
        /\ obj = last.pre

C11_Witness ==
    /\ last.op = "clone"
    /\ last.args[1].obj
    /\ last.pre.scope = "scopeA"
    /\ last.pre.onUpdate = "cbX"
    /\ out.vec.scope = "null"
    /\ out.vec.onUpdate = "cbX"
    /\ Coords(out.vec) = <<Num(10), Num(100), Num(20)>>
    /\ equals(out.vec, AsArg(obj))

\* r is Math.floor(v), Math.ceil(v), -v, clamp(v, low, high) with low <= high
IsFloorOf(r, v) ==
    IF IsNum(v) THEN IsNum(r) /\ r.d = 1 /\ Le(r, v) /\ Lt(v, Plus(r, Num(1)))
    ELSE r = v
IsCeilOf(r, v) ==
    IF IsNum(v) THEN IsNum(r) /\ r.d = 1 /\ Le(v, r) /\ Lt(Minus(r, Num(1)), v)
    ELSE r = v
IsNegOf(r, v) ==
    IF IsNum(v) THEN IsNum(r) /\ IsZero(Plus(r, v))
    ELSE IF IsInf(v) THEN IsInf(r) /\ r.n = -v.n
    ELSE r = v
IsClampOf(r, v, low, high) ==
    IF IsNaN(v) THEN r = v
    ELSE r = (IF Lt(v, low) THEN low ELSE IF Lt(high, v) THEN high ELSE v)

\* c is the vector p transformed coordinate by coordinate as the method op
\* and its Self form document
Transformed(op, c, p, args) ==
    \A i \in 1..3 :
        CASE op \in {"floor", "floorSelf"} -> IsFloorOf(c[i], p[i])
          [] op \in {"ceil", "ceilSelf"} -> IsCeilOf(c[i], p[i])
          [] op \in {"negate", "negateSelf"} -> IsNegOf(c[i], p[i])
          [] op \in {"clamp", "clampSelf"} ->
                 IsClampOf(c[i], p[i], args[1][1], args[1][2])

C13_EqualsIsComponentwise ==
    last.op = "equals" =>
        LET a == last.pre
            v == last.args[1]
        IN  /\ out.kind = "boolean"
            /\ v.z # Undef =>
                   (out.bool <=> /\ StrictEq(a._x, v.x)
                                 /\ StrictEq(a._y, v.y)
                                 /\ StrictEq(a._z, v.z))
            /\ v.z = Undef =>
                   (out.bool <=> StrictEq(a._x, v.x) /\ StrictEq(a._y, v.y))

\* C14: a.dot(v) is a.x*v.x + a.y*v.y + a.z*v.z for every v that has a z
\* and a.x*v.x + a.y*v.y + a.z for a v without z; it invokes no callback
\* and leaves the vector as it was.
C14_DotProduct ==
    last.op = "dot" =>
        LET a == last.pre
            v == last.args[1]
            xy == Plus(Times(a._x, v.x), Times(a._y, v.y))
        IN  /\ out.kind = "number"
            /\ v.z # Undef => out.num = Plus(xy, Times(a._z, v.z))
            /\ v.z = Undef => out.num = Plus(xy, a._z)
            /\ last.log = <<>>
            /\ obj = a

\* C15: after a.cross(b) under a callback that returns nothing, the vector
\* is (ay*bz - az*by, az*bx - ax*bz, ax*by - ay*bx), computed from the
\* coordinates a had before the call and from b.
C15_CrossProduct ==
    (last.op = "cross" /\ last.pre.onUpdate = "cbNone") =>
        LET a == last.pre
            b == last.args[1]
        IN  Coords(obj) =
                << Minus(Times(a._y, b.z), Times(a._z, b.y)),
                   Minus(Times(a._z, b.x), Times(a._x, b.z)),
                   Minus(Times(a._x, b.y), Times(a._y, b.x)) >>

\* C16: when the width or the height of the settings is not of type number,
\* init throws me.Entity.Error before it calls the parent constructor or any
\* other object, the object has no position, no body and no bounds
\* rectangle, and the construction hands no entity to its caller; when both
\* are numbers the parent constructor is the first thing init calls.
C16_EntityRequiresWidthAndHeight ==
    (ent.op = "init" /\ ent.args[1].given) =>
        IF TypeOf(ent.args[1].width) # "number" \/ TypeOf(ent.args[1].height) # "number"
        THEN /\ ent.threw
             /\ ent.error = "me.Entity.Error"
             /\ ent.calls = <<>>
             /\ ~ent.this.pos.set
             /\ ent.this.body.state = "absent"
             /\ ent.this.bounds # "rect"
             /\ ent.this.renderable.state # "object"
             /\ ent.status = "failed"
        ELSE /\ ent.calls # <<>>
             /\ ent.calls[1] = "me.Renderable.init"
             /\ ent.this.pos.set

C16_Witness ==
    /\ ent.op = "init"
    /\ ent.args[1].given
    /\ ent.args[1].width = StringValue
    /\ ent.args[1].height = Num(16)
    /\ ent.args[1].image = "sprites"
    /\ ent.args[1].getShape = "function"
    /\ ent.threw
    /\ ent.error = "me.Entity.Error"
    /\ ent.status = "failed"

\* C17: for a step that is not negative and a vector with finite x and y,
\* moveTowards returns without writing exactly when dx*dx + dy*dy is at
\* most step*step; otherwise it makes one batch write whose attempted point
\* lies at distance step from the vector's position, on the segment to the
\* target side, with the vector's z as attempted z.
C17_MoveTowardsComparesSquares ==
    (/\ last.op = "moveTowards"
     /\ IsNum(last.pre._x) /\ IsNum(last.pre._y)
     /\ Ge(last.args[2], Num(0))) =>
        LET a == last.pre
            target == last.args[1]
            step == last.args[2]
            dx == Minus(a._x, target.x)
            dy == Minus(a._y, target.y)
            within == Le(Plus(Times(dx, dx), Times(dy, dy)), Times(step, step))
        IN  IF within
            THEN last.log = <<>> /\ last.ret = "target"
            ELSE /\ Len(Own) = 1
                 /\ last.ret = "this"
                 /\ LET mx == Minus(Own[1].args[1], a._x)
                        my == Minus(Own[1].args[2], a._y)
                    IN  /\ Plus(Times(mx, mx), Times(my, my)) = Times(step, step)
                        /\ Times(mx, dy) = Times(my, dx)
                 /\ Own[1].args[3] = a._z

\* C18: under a callback that returns nothing, scaleV(v) multiplies each
\* coordinate by the coordinate of v, for every v that has a z, and leaves z
\* as it is for a v without z; add(v) and sub(v) add and subtract the
\* coordinates of v, taking 0 for the z of a v without z.
C18_ScaleVIsCoordinateWise ==
    last.pre.onUpdate = "cbNone" =>
        LET a == last.pre
            v == last.args[1]
        IN  /\ last.op = "scaleV" =>
                   Coords(obj) =
                       << Times(a._x, v.x), Times(a._y, v.y),
                          IF v.z = Undef THEN a._z ELSE Times(a._z, v.z) >>
            /\ last.op = "add" =>
                   Coords(obj) =
                       << Plus(a._x, v.x), Plus(a._y, v.y),
                          IF v.z = Undef THEN a._z ELSE Plus(a._z, v.z) >>
            /\ last.op = "sub" =>
                   Coords(obj) =
                       << Minus(a._x, v.x), Minus(a._y, v.y),
                          IF v.z = Undef THEN a._z ELSE Minus(a._z, v.z) >>

\* C19: under a callback that returns nothing, after abs() each coordinate
\* is the absolute value of the coordinate before the call, so none of them
\* is negative.
C19_AbsIsAbsoluteValue ==
    (last.op = "abs" /\ last.pre.onUpdate = "cbNone") =>
        \A i \in 1..3 :
            LET before == Coords(last.pre)[i]
                after == Coords(obj)[i]
            IN  /\ after = (IF Lt(before, Num(0)) THEN Neg(before) ELSE before)
                /\ ~Lt(after, Num(0))

\* C20: when the callback, while it handles a write, makes a batch write on
\* the same vector, the inner write is made and committed first (one
\* callback invocation of its own, which finds the coordinates of before
\* the outer call), and the outer write commits afterwards: after an outer
\* batch write the coordinates are the attempted ones of the outer write
\* (a z that was not passed counting as 0) and none of the inner write;
\* after an outer write to one coordinate that coordinate is the written
\* value and the other two are those of the inner write.
C20_OuterWriteWins ==
    (/\ last.pre.onUpdate = "cbReenter"
     /\ last.op \in BatchMethods \cup {"_set", "set x", "set y", "set z"}) =>
        LET p == last.pre
            inner == ReenterCoords
        IN  /\ Len(last.log) = 2
            /\ last.log[1].depth = 0
            /\ last.log[2].depth = 1
            /\ last.log[2].fn = "cbReenter"
            /\ last.log[2].args = inner \o Coords(p)
            /\ last.log[2].seen = Coords(p)
            /\ LET a == last.log[1].args
               IN  CASE last.op = "set x" -> Coords(obj) = <<a[1], inner[2], inner[3]>>
                     [] last.op = "set y" -> Coords(obj) = <<inner[1], a[2], inner[3]>>
                     [] last.op = "set z" -> Coords(obj) = <<inner[1], inner[2], a[3]>>
                     [] OTHER -> Coords(obj) = <<a[1], a[2], Default(a[3], Num(0))>>

\* the level a goTo call names: its argument, or the level of the settings
\* when it has none
Named(level) == IF level = "undefined" THEN lev.this.nextlevel ELSE level

\* the level named by the last goTo call before event i, the level of the
\* settings when there is none
NamedBefore(i) ==
    LET asks == {j \in 1..(i - 1) : game.events[j].ev = "goTo"}
    IN  IF asks = {} THEN lev.this.nextlevel
        ELSE Named(game.events[CHOOSE j \in asks : \A k \in asks : k <= j].level)

\* C21: for a level entity whose fade and duration are both given (a
\* duration of 0 counting as not given), fadeIn is started by the first
\* goTo call and never again, the fading flag stays set from then on, and
\* every loadLevel call is made by onFadeComplete with the level named by
\* the latest goTo call; for a level entity without fade or duration no
\* fade is started and every goTo call is followed at once by loadLevel of
\* the level it names, and nothing else loads a level; onCollision returns
\* false.
C21_LevelEntityFadesOnce ==
    lev.status = "constructed" =>
        LET e == game.events
            fadeIns == {i \in DOMAIN e : e[i].ev = "fadeIn"}
            asks == {i \in DOMAIN e : e[i].ev = "goTo"}
            loads == {i \in DOMAIN e : e[i].ev = "loadLevel"}
        IN  /\ (StringTruthy(lev.this.fade) /\ Truthy(lev.this.duration)) =>
                   /\ Cardinality(fadeIns) <= 1
                   /\ lev.this.fading <=> fadeIns # {}
                   /\ asks # {} => fadeIns # {}
                   /\ \A i \in fadeIns : i - 1 \in asks /\ \A j \in asks : i - 1 <= j
                   /\ \A i \in loads : /\ e[i].from = "onFadeComplete"
                                       /\ e[i].level = NamedBefore(i)
            /\ ~(StringTruthy(lev.this.fade) /\ Truthy(lev.this.duration)) =>
                   /\ fadeIns = {}
                   /\ ~lev.this.fading
                   /\ ~game.pending
                   /\ \A i \in asks : /\ i + 1 \in loads
                                      /\ e[i + 1] = LevelLoaded(Named(e[i].level), "goTo")
                   /\ \A i \in loads : i - 1 \in asks
            /\ lev.op = "onCollision" => lev.ret = "false"

C21_Witness ==
    /\ lev.status = "constructed"
    /\ lev.this.fade = "#000000"
    /\ lev.this.duration = Num(250)
    /\ lev.op = "onCollision"
    /\ lev.ret = "false"
    /\ lev.this.fading
    /\ ~game.pending
    /\ game.events = << Asked("levelB"), FadeInStarted, Asked("levelC"),
                        LevelLoaded("levelC", "onFadeComplete"), FadeOutStarted,
                        Asked("undefined") >>

====
